---- MODULE Spec2Model ----
(***************************************************************************)
(* Model of dsp/stats.h: mean, var and std over a range of samples of a    *)
(* floating-point type T, each in three call shapes (iterator pair,        *)
(* std::vector, dsp::Signal).                                              *)
(*                                                                         *)
(* T is a binary floating-point type with round-to-nearest-even, signed    *)
(* zeros, infinities and NaN.  The model keeps that arithmetic and scales  *)
(* the format down: Precision significand bits, FracBits binary places     *)
(* below 1.0 at the smallest exponent, TopShift binades above the first.   *)
(* A finite value is held as its magnitude in units of the smallest        *)
(* subnormal (mag = |value| * One) and a sign.                             *)
(***************************************************************************)
EXTENDS Integers, Sequences, FiniteSets

\* ------------------------------------------------------------------------
\* The sample type T (stats.h:12 "Should be float, double, or long double")
\* ------------------------------------------------------------------------
Precision == 4
FracBits == 2
TopShift == 4

RECURSIVE Pow2(_)
Pow2(n) == IF n = 0 THEN 1 ELSE 2 * Pow2(n - 1)

One == Pow2(FracBits)
MaxFinite == (Pow2(Precision) - 1) * Pow2(TopShift)

Fin(neg, mag) == [cls |-> "fin", neg |-> neg, mag |-> mag]
Inf(neg) == [cls |-> "inf", neg |-> neg, mag |-> 0]
NaN == [cls |-> "nan", neg |-> FALSE, mag |-> 0]
\* A call for which overload resolution finds no viable function has no value.
IllFormed == [cls |-> "ill", neg |-> FALSE, mag |-> 0]
Zero == Fin(FALSE, 0)

IsFinite(a) == a.cls = "fin"
IsNumber(a) == a.cls \in {"fin", "inf", "nan"}

\* Spacing of the representable values around the exact magnitude num/den:
\* 1 below 2^Precision (subnormals and the first binade), doubling per binade.
RECURSIVE Spacing(_, _, _)
Spacing(num, den, s) ==
    IF num < den * Pow2(Precision) * s THEN s ELSE Spacing(num, den, 2 * s)

\* Round the exact magnitude num/den (den > 0) to the nearest representable
\* value, ties to the even significand; past the largest finite value the
\* result is an infinity.
Round(neg, num, den) ==
    LET s == Spacing(num, den, 1)
        m == num \div (den * s)
        r == num - m * den * s
        up == (2 * r > den * s) \/ (2 * r = den * s /\ m % 2 = 1)
        k == (IF up THEN m + 1 ELSE m) * s
    IN  IF k > MaxFinite THEN Inf(neg) ELSE Fin(neg, k)

\* Signed value of a finite number, in units of the smallest subnormal.
Val(a) == IF a.neg THEN 0 - a.mag ELSE a.mag

Neg(a) == IF a.cls = "nan" THEN a ELSE [a EXCEPT !.neg = ~a.neg]

\* a + b in T.
FAdd(a, b) ==
    IF a.cls = "nan" \/ b.cls = "nan" THEN NaN
    ELSE IF a.cls = "inf" /\ b.cls = "inf"
         THEN (IF a.neg = b.neg THEN a ELSE NaN)
    ELSE IF a.cls = "inf" THEN a
    ELSE IF b.cls = "inf" THEN b
    ELSE LET v == Val(a) + Val(b)
         IN  IF v = 0 THEN Fin(a.neg /\ b.neg, 0)
             ELSE IF v < 0 THEN Round(TRUE, 0 - v, 1)
             ELSE Round(FALSE, v, 1)

\* a - b in T.
FSub(a, b) == FAdd(a, Neg(b))

\* Division that traps on a zero divisor, as integer division does.
FDivTrap(a, b) ==
    IF b.cls = "fin" /\ b.mag = 0 THEN [cls |-> "sigfpe", neg |-> FALSE, mag |-> 0]
    ELSE IF a.cls = "nan" \/ b.cls = "nan" THEN NaN
    ELSE IF a.cls = "inf" THEN (IF b.cls = "inf" THEN NaN ELSE Inf(a.neg /= b.neg))
    ELSE IF b.cls = "inf" THEN Fin(a.neg /= b.neg, 0)
    ELSE Round(a.neg /= b.neg, a.mag * One, b.mag)

\* a / b in T; a zero divisor gives an infinity or NaN, never a trap.
FDiv(a, b) ==
    LET neg == (a.neg /= b.neg)
    IN  IF a.cls = "nan" \/ b.cls = "nan" THEN NaN
        ELSE IF a.cls = "inf" THEN (IF b.cls = "inf" THEN NaN ELSE Inf(neg))
        ELSE IF b.cls = "inf" THEN Fin(neg, 0)
        ELSE IF b.mag = 0 THEN (IF a.mag = 0 THEN NaN ELSE Inf(neg))
        ELSE Round(neg, a.mag * One, b.mag)

\* std::pow(a, 2) in T.
FSquare(a) ==
    IF a.cls = "nan" THEN NaN
    ELSE IF a.cls = "inf" THEN Inf(FALSE)
    ELSE Round(FALSE, a.mag * a.mag, One)

\* Largest r with r * r <= n.
RECURSIVE ISqrtFrom(_, _)
ISqrtFrom(n, r) == IF (r + 1) * (r + 1) > n THEN r ELSE ISqrtFrom(n, r + 1)
ISqrt(n) == ISqrtFrom(n, 0)

\* Spacing of the representable values around sqrt(n).
RECURSIVE SqrtSpacing(_, _)
SqrtSpacing(n, s) ==
    IF n < Pow2(Precision) * s * Pow2(Precision) * s THEN s
    ELSE SqrtSpacing(n, 2 * s)

\* std::sqrt(a) in T, correctly rounded: sqrt(mag / One) * One = sqrt(mag * One).
FSqrt(a) ==
    IF a.cls = "nan" THEN NaN
    ELSE IF a.cls = "inf" THEN (IF a.neg THEN NaN ELSE a)
    ELSE IF a.mag = 0 THEN a
    ELSE IF a.neg THEN NaN
    ELSE LET n == a.mag * One
             s == SqrtSpacing(n, 1)
             m == ISqrt(n \div (s * s))
             up == 4 * n > (2 * m + 1) * (2 * m + 1) * s * s
         IN  Fin(FALSE, (IF up THEN m + 1 ELSE m) * s)

\* Conversion of a std::ptrdiff_t to T (the usual arithmetic conversions).
FromInt(n) == IF n < 0 THEN Round(TRUE, (0 - n) * One, 1) ELSE Round(FALSE, n * One, 1)

\* ------------------------------------------------------------------------
\* Overloads and the calls that name them
\* ------------------------------------------------------------------------
\* The function templates the header declares: their function parameters, their
\* template parameters, and the template parameters deduction can find from
\* the function parameters (T appears in no parameter of an iterator form).
Overloads ==
    { [name |-> n, form |-> "iter",
       params |-> IF n = "mean" THEN <<"iterator", "iterator">>
                  ELSE <<"iterator", "iterator", "weight">>,
       tparams |-> {"T", "It"}, deduced |-> {"It"}] : n \in {"mean", "var", "std"} }
    \cup
    { [name |-> n, form |-> f,
       params |-> IF n = "mean" THEN <<f>> ELSE <<f, "weight">>,
       tparams |-> {"T"}, deduced |-> {"T"}] :
         n \in {"mean", "var", "std"}, f \in {"vector", "signal"} }

\* The arguments of a call fit an overload when they are its parameters, a
\* trailing weight left to its default argument or not.
ArgsFit(args, params) ==
    \/ args = params
    \/ /\ Len(params) = Len(args) + 1
       /\ params[Len(params)] = "weight"
       /\ args = SubSeq(params, 1, Len(args))

\* Overload resolution of name<explicit...>(args...): the overloads whose
\* parameters fit and whose template parameters are all explicit or deduced.
Viable(name, explicit, args) ==
    { ov \in Overloads : /\ ov.name = name
                         /\ ArgsFit(args, ov.params)
                         /\ ov.tparams \subseteq (explicit \cup ov.deduced) }

\* stats.h:97, std's iterator form: var(begin, end, w), no template argument.
StdVarCall == [name |-> "var", explicit |-> {},
               args |-> <<"iterator", "iterator", "weight">>]

\* stats.h:55, var's iterator form: mean<T>(begin, end).
VarMeanCall == [name |-> "mean", explicit |-> {"T"},
                args |-> <<"iterator", "iterator">>]

\* A wrapper's call of the iterator form: op<T>(x.begin(), x.end()[, w]).
WrapperCall(op) ==
    [name |-> op, explicit |-> {"T"},
     args |-> IF op = "mean" THEN <<"iterator", "iterator">>
              ELSE <<"iterator", "iterator", "weight">>]

WellFormed(site) == Viable(site.name, site.explicit, site.args) /= {}

\* The default argument of the weight parameter (stats.h:53,70,82,95,106,117).
DefaultWeight(op, form) == "sample"

\* The value of parameter w: the argument, or the default when it is omitted.
BindWeight(op, form, warg) ==
    IF warg = "omitted" THEN DefaultWeight(op, form) ELSE warg

\* ------------------------------------------------------------------------
\* The bodies of the iterator forms
\* ------------------------------------------------------------------------
\* std::accumulate(begin, end, T(0)): the left fold, in order.
RECURSIVE Accumulate(_, _)
Accumulate(S, init) ==
    IF S = <<>> THEN init ELSE Accumulate(Tail(S), FAdd(init, Head(S)))

\* std::distance(begin, end).
Distance(S) == Len(S)

\* The quotient with the count short by one.
MeanQuotientShort(sum, S) == FDiv(sum, FromInt(Distance(S) - 1))

\* stats.h:20: sum / std::distance(begin, end).
MeanQuotient(sum, S) == FDiv(sum, FromInt(Distance(S)))

\* stats.h:56, the transformed elements: std::pow(x - mu, 2).
SquaredDeviations(S, mu) == [i \in 1..Len(S) |-> FSquare(FSub(S[i], mu))]

\* GENERALIZED_SUM of the operands indexed by I: the sums of every grouping of
\* every permutation, which std::transform_reduce may return any of.
RECURSIVE GeneralizedSum(_, _)
GeneralizedSum(ops, I) ==
    IF Cardinality(I) = 1 THEN {ops[i] : i \in I}
    ELSE LET lo == CHOOSE i \in I : \A j \in I : i <= j
         IN  UNION { { FAdd(p, q) : p \in GeneralizedSum(ops, A),
                                    q \in GeneralizedSum(ops, I \ A) } :
                     A \in { B \in SUBSET I : lo \in B /\ B /= I } }

\* stats.h:56: std::transform_reduce(begin, end, T(0), std::plus<T>(), f).
TransformReduce(S, mu) ==
    LET ops == <<Zero>> \o SquaredDeviations(S, mu)
    IN  GeneralizedSum(ops, 1..Len(ops))

\* The quotient with the two divisors exchanged.
VarQuotientSwapped(sum, S, w) ==
    IF w = "sample" THEN FDiv(sum, FromInt(Distance(S)))
    ELSE FDiv(sum, FromInt(Distance(S) - 1))

\* stats.h:57-61: the divisor is N-1 for weight::sample, N for population.
VarQuotient(sum, S, w) ==
    IF w = "sample" THEN FDiv(sum, FromInt(Distance(S) - 1))
    ELSE FDiv(sum, FromInt(Distance(S)))

\* mean<T>(begin, end) as a whole (stats.h:17-21).
mean(S) == MeanQuotient(Accumulate(S, Zero), S)

\* var<T>(begin, end, w) as a whole (stats.h:53-62): the values it may return.
var(S, w) == { VarQuotient(sum, S, w) : sum \in TransformReduce(S, mean(S)) }

\* ------------------------------------------------------------------------
\* Inputs
\* ------------------------------------------------------------------------
MaxLen == 3

\* Real-valued samples: 1.0, 2.0, -3.0, 7.0, the smallest subnormal and the
\* largest finite value of T.
Values ==
    { Fin(FALSE, One), Fin(FALSE, 2 * One), Fin(TRUE, 3 * One),
      Fin(FALSE, 7 * One), Fin(FALSE, 1), Fin(FALSE, MaxFinite) }

\* The sequence [1, 2, 3, 4, 5].
OneToFive == [i \in 1..5 |-> Fin(FALSE, i * One)]

\* The sequence [5, 5, 5, 5].
FourFives == [i \in 1..4 |-> Fin(FALSE, 5 * One)]

Samples ==
    UNION { [1..n -> Values] : n \in 0..MaxLen } \cup {OneToFive, FourFives}

\* The calls a caller can write: mean has no weight; var and std take
\* weight::sample, weight::population, or leave the argument out.
Forms == {"iter", "vector", "signal"}
Calls ==
    { [op |-> "mean", form |-> f, w |-> "omitted"] : f \in Forms }
    \cup
    { [op |-> o, form |-> f, w |-> a] :
        o \in {"var", "std"}, f \in Forms,
        a \in {"sample", "population", "omitted"} }

\* ------------------------------------------------------------------------
\* State
\* ------------------------------------------------------------------------
Callers == {1, 2}

VARIABLES
    x,       \* x[c]: the samples caller c owns and passes
    call,    \* call[c]: the call caller c makes
    pc,      \* pc[c]: where caller c's call stands
    ctl,     \* ctl[c]: the overload being executed and the call it serves
    loc,     \* loc[f]: the automatic variables of activation f
    result   \* result[c]: what the call returned

vars == <<x, call, pc, ctl, loc, result>>

NoCall == [op |-> "none", form |-> "iter", w |-> "omitted"]
NoLocals == [w |-> "sample", sum |-> Zero, mu |-> Zero]
NoResult == [cls |-> "none", neg |-> FALSE, mag |-> 0]

\* One activation for every call, as static storage would give.
FrameStatic(c) == 1

\* The activation that holds caller c's parameters and locals: every call
\* has its own (w is a parameter, sum and mu are automatic variables).
Frame(c) == c

Started(k) == [form |-> k.form, warg |-> k.w, nest |-> k.op]
NoControl == [form |-> "iter", warg |-> "omitted", nest |-> "none"]

\* One caller, every input; the other caller makes no call.
Init ==
    /\ \E S \in Samples, k \in Calls :
         /\ x = [c \in Callers |-> IF c = 1 THEN S ELSE <<>>]
         /\ call = [c \in Callers |-> IF c = 1 THEN k ELSE NoCall]
         /\ ctl = [c \in Callers |-> IF c = 1 THEN Started(k) ELSE NoControl]
    /\ pc = [c \in Callers |-> IF c = 1 THEN "entry" ELSE "idle"]
    /\ loc = [f \in Callers |-> NoLocals]
    /\ result = [c \in Callers |-> NoResult]

\* ------------------------------------------------------------------------
\* Steps
\* ------------------------------------------------------------------------
Finish(c, v) ==
    /\ result' = [result EXCEPT ![c] = v]
    /\ pc' = [pc EXCEPT ![c] = "done"]

\* stats.h:29,39,72,84,108,119: a vector or Signal form calls the iterator
\* form over x.begin()..x.end(), passing its own w.
Delegate(c) ==
    /\ pc[c] = "entry"
    /\ ctl[c].form \in {"vector", "signal"}
    /\ LET op == call[c].op
           w == BindWeight(op, ctl[c].form, ctl[c].warg)
       IN  IF WellFormed(WrapperCall(op))
           THEN /\ ctl' = [ctl EXCEPT ![c].form = "iter",
                                      ![c].warg = IF op = "mean" THEN "omitted" ELSE w]
                /\ UNCHANGED <<pc, result>>
           ELSE /\ Finish(c, IllFormed)
                /\ UNCHANGED ctl
    /\ UNCHANGED <<x, call, loc>>

\* stats.h:17: mean's iterator form is entered.
EnterMean(c) ==
    /\ pc[c] = "entry"
    /\ ctl[c].form = "iter"
    /\ call[c].op = "mean"
    /\ pc' = [pc EXCEPT ![c] = "mean19"]
    /\ UNCHANGED <<x, call, ctl, loc, result>>

\* stats.h:53-55: var's iterator form binds w and calls mean<T>(begin, end).
EnterVar(c) ==
    /\ pc[c] = "entry"
    /\ ctl[c].form = "iter"
    /\ call[c].op = "var"
    /\ loc' = [loc EXCEPT ![Frame(c)].w = BindWeight("var", "iter", ctl[c].warg)]
    /\ IF WellFormed(VarMeanCall)
       THEN pc' = [pc EXCEPT ![c] = "mean19"] /\ UNCHANGED result
       ELSE Finish(c, IllFormed)
    /\ UNCHANGED <<x, call, ctl>>

\* stats.h:95-97: std's iterator form binds w and calls var(begin, end, w).
EnterStd(c) ==
    /\ pc[c] = "entry"
    /\ ctl[c].form = "iter"
    /\ call[c].op = "std"
    /\ loc' = [loc EXCEPT ![Frame(c)].w = BindWeight("std", "iter", ctl[c].warg)]
    /\ IF WellFormed(StdVarCall) /\ WellFormed(VarMeanCall)
       THEN pc' = [pc EXCEPT ![c] = "mean19"] /\ UNCHANGED result
       ELSE Finish(c, IllFormed)
    /\ UNCHANGED <<x, call, ctl>>

\* stats.h:19: auto sum = std::accumulate(begin, end, T(0)).
MeanSum(c) ==
    /\ pc[c] = "mean19"
    /\ loc' = [loc EXCEPT ![Frame(c)].sum = Accumulate(x[c], Zero)]
    /\ pc' = [pc EXCEPT ![c] = "mean20"]
    /\ UNCHANGED <<x, call, ctl, result>>

\* stats.h:20: return sum / std::distance(begin, end), to the caller or to
\* var's mu (stats.h:55).
MeanReturn(c) ==
    /\ pc[c] = "mean20"
    /\ LET v == MeanQuotient(loc[Frame(c)].sum, x[c])
       IN  IF ctl[c].nest = "mean"
           THEN Finish(c, v) /\ UNCHANGED loc
           ELSE /\ loc' = [loc EXCEPT ![Frame(c)].mu = v]
                /\ pc' = [pc EXCEPT ![c] = "var56"]
                /\ UNCHANGED result
    /\ UNCHANGED <<x, call, ctl>>

\* stats.h:56: auto sum = std::transform_reduce(...).
VarSum(c) ==
    /\ pc[c] = "var56"
    /\ \E s \in TransformReduce(x[c], loc[Frame(c)].mu) :
         loc' = [loc EXCEPT ![Frame(c)].sum = s]
    /\ pc' = [pc EXCEPT ![c] = "var57"]
    /\ UNCHANGED <<x, call, ctl, result>>

\* stats.h:57-61: return sum / (N - 1) or sum / N; std returns the square
\* root of it (stats.h:97).
VarReturn(c) ==
    /\ pc[c] = "var57"
    /\ LET v == VarQuotient(loc[Frame(c)].sum, x[c], loc[Frame(c)].w)
       IN  Finish(c, IF ctl[c].nest = "std" THEN FSqrt(v) ELSE v)
    /\ UNCHANGED <<x, call, ctl, loc>>

Next ==
    \E c \in Callers :
        \/ Delegate(c)
        \/ EnterMean(c)
        \/ EnterVar(c)
        \/ EnterStd(c)
        \/ MeanSum(c)
        \/ MeanReturn(c)
        \/ VarSum(c)
        \/ VarReturn(c)

Spec == Init /\ [][Next]_vars

\* Two callers at once, each on its own samples.
ConcMaxLen == 1
ConcValues == { Fin(FALSE, One), Fin(TRUE, 3 * One) }
ConcSamples == UNION { [1..n -> ConcValues] : n \in 0..ConcMaxLen }
ConcCalls ==
    { [op |-> "mean", form |-> "iter", w |-> "omitted"],
      [op |-> "var", form |-> "vector", w |-> "population"],
      [op |-> "var", form |-> "iter", w |-> "omitted"],
      [op |-> "std", form |-> "signal", w |-> "sample"] }

InitConc ==
    /\ \E S1 \in ConcSamples, S2 \in ConcSamples, k1 \in Calls, k2 \in ConcCalls :
         /\ x = [c \in Callers |-> IF c = 1 THEN S1 ELSE S2]
         /\ call = [c \in Callers |-> IF c = 1 THEN k1 ELSE k2]
         /\ ctl = [c \in Callers |-> Started(IF c = 1 THEN k1 ELSE k2)]
    /\ pc = [c \in Callers |-> "entry"]
    /\ loc = [f \in Callers |-> NoLocals]
    /\ result = [c \in Callers |-> NoResult]

SpecConc == InitConc /\ [][Next]_vars

\* ------------------------------------------------------------------------
\* What a call returns when it runs alone
\* ------------------------------------------------------------------------
Results(k, S) ==
    LET w == BindWeight(k.op, k.form, k.w)
    IN  IF k.op = "mean" THEN {mean(S)}
        ELSE IF k.op = "var" THEN var(S, w)
        ELSE IF WellFormed(StdVarCall) THEN {FSqrt(v) : v \in var(S, w)}
        ELSE {IllFormed}

\* ------------------------------------------------------------------------
\* Exact arithmetic, for reference (integers, in units of the smallest
\* subnormal; squares in units of that over One)
\* ------------------------------------------------------------------------
Abs(n) == IF n < 0 THEN 0 - n ELSE n

RECURSIVE SumVal(_)
SumVal(S) == IF S = <<>> THEN 0 ELSE Val(Head(S)) + SumVal(Tail(S))

RECURSIVE SumMag(_)
SumMag(S) == IF S = <<>> THEN 0 ELSE Head(S).mag + SumMag(Tail(S))

\* (x_i - m)^2 summed over the indices in I.
RECURSIVE SumSq(_, _, _)
SumSq(S, m, I) ==
    IF I = {} THEN 0
    ELSE LET i == CHOOSE j \in I : TRUE
         IN  (Val(S[i]) - m) * (Val(S[i]) - m) + SumSq(S, m, I \ {i})

\* The magnitude n is a value of T.
IsRep(n) == Round(FALSE, n, 1) = Fin(FALSE, n)

\* num/den is a value of T.
IsRepQ(num, den) == num % den = 0 /\ IsRep(num \div den)

Done(c) == pc[c] = "done"
Weight(c) == BindWeight(call[c].op, call[c].form, call[c].w)
Divisor(c) == IF Weight(c) = "sample" THEN Len(x[c]) - 1 ELSE Len(x[c])

\* Well-sized input: one element for mean and population weighting, two for
\* sample weighting.
WellSized(c) ==
    IF call[c].op /= "mean" /\ Weight(c) = "sample" THEN Len(x[c]) >= 2
    ELSE Len(x[c]) >= 1

\* No step of mean rounds: every partial sum and the quotient are values of T.
MeanIsExact(S) ==
    /\ \A j \in 1..Len(S) : IsRep(Abs(SumVal(SubSeq(S, 1, j))))
    /\ IsRep(Len(S) * One)
    /\ IsRepQ(Abs(SumVal(S)), Len(S))

\* r is sum/N to within N roundings (relative error 2 * N * 2^-Precision of
\* the mean magnitude) and half a subnormal step.
MeanWithin(S, r) ==
    Abs(Val(r) * Len(S) - SumVal(S)) * Pow2(Precision)
        <= 2 * Len(S) * SumMag(S) + Len(S) * Pow2(Precision - 1)

\* No step of var after the mean rounds: every deviation from m, every
\* square, every sum of squares and the quotient are values of T.
VarIsExact(S, m, div) ==
    /\ \A i \in 1..Len(S) :
         /\ IsRep(Abs(Val(S[i]) - m))
         /\ IsRepQ((Val(S[i]) - m) * (Val(S[i]) - m), One)
    /\ \A I \in SUBSET (1..Len(S)) : IsRepQ(SumSq(S, m, I), One)
    /\ IsRep(div * One)
    /\ IsRepQ(SumSq(S, m, 1..Len(S)), One * div)

\* r is (sum of squared deviations from m)/div to within N+4 roundings
\* (relative error 2 * (N+4) * 2^-Precision) and N+1 subnormal steps.
VarWithin(S, m, div, r) ==
    LET ss == SumSq(S, m, 1..Len(S))
    IN  Abs(Val(r) * One * div - ss) * Pow2(Precision)
            <= 2 * (Len(S) + 4) * ss + (Len(S) + 1) * One * div * Pow2(Precision)

\* ------------------------------------------------------------------------
\* Claims
\* ------------------------------------------------------------------------
IsMean(c) == Done(c) /\ call[c].op = "mean"
IsVar(c) == Done(c) /\ call[c].op = "var"
IsStd(c) == Done(c) /\ call[c].op = "std"
Constant(S) == \A i \in 1..Len(S) : S[i] = S[1]

\* C1 as stated: for every non-empty sequence, mean returns a number that is
\* the sum of the elements divided by their count, within floating-point
\* tolerance.
C1_MeanIsSumOverCount ==
    \A c \in Callers :
        IsMean(c) /\ Len(x[c]) >= 1 =>
            IsFinite(result[c]) /\ MeanWithin(x[c], result[c])

\* C1 amended: for every non-empty sequence whose running sum stays finite,
\* mean returns the sum divided by the count within floating-point tolerance,
\* and exactly that when no step rounds; when the running sum overflows, the
\* result is an infinity or NaN.
C1_MeanUnlessOverflow ==
    \A c \in Callers :
        IsMean(c) /\ Len(x[c]) >= 1 =>
            /\ IsFinite(Accumulate(x[c], Zero)) =>
                 IsFinite(result[c]) /\ MeanWithin(x[c], result[c])
            /\ MeanIsExact(x[c]) =>
                 IsFinite(result[c]) /\ Val(result[c]) * Len(x[c]) = SumVal(x[c])
            /\ ~IsFinite(Accumulate(x[c], Zero)) => result[c].cls \in {"inf", "nan"}

\* mean([1,2,3,4,5]) has returned 3.
C1_Witness ==
    \E c \in Callers :
        IsMean(c) /\ x[c] = OneToFive /\ result[c] = Fin(FALSE, 3 * One)

\* C2 as stated: for every sequence of two or more elements, var returns a
\* number that is the sum of (x_i - mean(S))^2 divided by N-1 (sample) or by
\* N (population), within floating-point tolerance.
C2_VarIsSumOfSquaresOverDivisor ==
    \A c \in Callers :
        IsVar(c) /\ Len(x[c]) >= 2 =>
            /\ IsFinite(mean(x[c]))
            /\ IsFinite(result[c])
            /\ VarWithin(x[c], Val(mean(x[c])), Divisor(c), result[c])

\* C2 amended: for every sequence of two or more elements, var returns either
\* a finite number, which is the sum of (x_i - mean(S))^2 divided by N-1
\* (sample) or N (population) within floating-point tolerance, and exactly
\* that when no step rounds, or, when a step overflows, an infinity or NaN.
C2_VarUnlessOverflow ==
    \A c \in Callers :
        IsVar(c) /\ Len(x[c]) >= 2 =>
            LET mu == mean(x[c])
            IN  /\ IsFinite(result[c]) =>
                     /\ IsFinite(mu)
                     /\ VarWithin(x[c], Val(mu), Divisor(c), result[c])
                /\ IsFinite(mu) /\ VarIsExact(x[c], Val(mu), Divisor(c)) =>
                     /\ IsFinite(result[c])
                     /\ Val(result[c]) * One * Divisor(c)
                            = SumSq(x[c], Val(mu), 1..Len(x[c]))
                /\ ~IsFinite(result[c]) =>
                     /\ result[c].cls \in {"inf", "nan"}
                     /\ \/ ~IsFinite(mu)
                        \/ \E i \in 1..Len(x[c]) :
                             ~IsFinite(FSquare(FSub(x[c][i], mu)))
                        \/ \E s \in TransformReduce(x[c], mu) : ~IsFinite(s)

\* var([1,2,3,4,5]) has returned 2.5 under sample weighting.
C2_Witness ==
    \E c \in Callers :
        /\ IsVar(c) /\ x[c] = OneToFive /\ Weight(c) = "sample"
        /\ 2 * Val(result[c]) = 5 * One

\* C3: for every well-sized sequence and either weighting, std returns the
\* non-negative square root of var with the same weighting, in every form.
C3_StdIsSqrtOfVar ==
    \A c \in Callers :
        IsStd(c) /\ WellSized(c) =>
            \E v \in var(x[c], Weight(c)) : result[c] = FSqrt(v)

\* C4: the vector and Signal forms of mean, var and std return the value the
\* iterator-pair form returns for the same data and weighting.
C4_FormsAgree ==
    \A c \in Callers :
        Done(c) /\ call[c].form \in {"vector", "signal"} =>
            /\ IsNumber(result[c])
            /\ result[c] \in Results([call[c] EXCEPT !.form = "iter"], x[c])

\* C5: with the weighting left out, var and std in every form return the
\* value they return for weight::sample.
C5_DefaultIsSample ==
    \A c \in Callers :
        Done(c) /\ call[c].op \in {"var", "std"} /\ call[c].w = "omitted" =>
            /\ IsNumber(result[c])
            /\ result[c] \in Results([call[c] EXCEPT !.w = "sample"], x[c])

\* C6: on well-sized input every operation in every form completes with a
\* finite value.
C6_WellSizedSucceeds ==
    \A c \in Callers :
        Done(c) /\ WellSized(c) => IsFinite(result[c])

\* C7: for a well-sized sequence of identical values, var and std are 0
\* under either weighting.
C7_IdenticalValuesGiveZero ==
    \A c \in Callers :
        Done(c) /\ call[c].op \in {"var", "std"} /\ WellSized(c) /\ Constant(x[c]) =>
            IsFinite(result[c]) /\ result[c].mag = 0

\* C8: for a single-element sequence, var and std with population weighting
\* are 0.
C8_SingleElementPopulationIsZero ==
    \A c \in Callers :
        /\ Done(c) /\ call[c].op \in {"var", "std"}
        /\ Len(x[c]) = 1 /\ Weight(c) = "population"
        => IsFinite(result[c]) /\ result[c].mag = 0

\* C9: on degenerate input mean and var complete with what the division
\* produces and signal nothing: NaN (0/0) for mean and population var of an
\* empty sequence and for sample var of one element, -0 (0/-1) for sample var
\* of an empty sequence.
C9_DegenerateInputReturns ==
    \A c \in Callers :
        /\ IsMean(c) /\ Len(x[c]) = 0 => result[c] = NaN
        /\ IsVar(c) /\ Weight(c) = "population" /\ Len(x[c]) = 0 => result[c] = NaN
        /\ IsVar(c) /\ Weight(c) = "sample" /\ Len(x[c]) = 1 => result[c] = NaN
        /\ IsVar(c) /\ Weight(c) = "sample" /\ Len(x[c]) = 0 => result[c] = Fin(TRUE, 0)
        /\ Done(c) /\ call[c].op \in {"mean", "var"} => IsNumber(result[c])

\* Sample var of a single element has returned through a vector.
C9_Witness ==
    \E c \in Callers :
        /\ IsVar(c) /\ call[c].form = "vector" /\ Weight(c) = "sample"
        /\ Len(x[c]) = 1 /\ result[c] = NaN

\* C10: no step changes a caller's sequence or another call's variables, and
\* a call that finishes among the steps of another returns what it returns
\* alone.
C10_PureAndIndependent ==
    [][ /\ x' = x
        /\ call' = call
        /\ \A c \in Callers :
             pc'[c] = "done" => result'[c] \in Results(call[c], x[c]) ]_vars

\* The first caller's var has returned while the second caller's var, on a
\* different sample, holds its sum of squares and has yet to divide.
C10_Witness ==
    /\ IsVar(1) /\ call[2].op = "var" /\ pc[2] = "var57"
    /\ x[1] /= x[2]
    /\ Len(x[1]) = 1 /\ Len(x[2]) = 1
    /\ result[1] \in Results(call[1], x[1])

\* ------------------------------------------------------------------------
\* mean and var apart from std
\* ------------------------------------------------------------------------
\* The vector and Signal forms of mean and var return a number the
\* iterator-pair form returns for the same data and weighting.
MeanVarFormsAgree ==
    \A c \in Callers :
        /\ Done(c) /\ call[c].op \in {"mean", "var"}
        /\ call[c].form \in {"vector", "signal"}
        => /\ IsNumber(result[c])
           /\ result[c] \in Results([call[c] EXCEPT !.form = "iter"], x[c])

\* With the weighting left out, var in every form returns a number it
\* returns for weight::sample.
VarDefaultIsSample ==
    \A c \in Callers :
        IsVar(c) /\ call[c].w = "omitted" =>
            /\ IsNumber(result[c])
            /\ result[c] \in Results([call[c] EXCEPT !.w = "sample"], x[c])

\* var of a single element with population weighting is 0.
VarSingleElementPopulationIsZero ==
    \A c \in Callers :
        IsVar(c) /\ Len(x[c]) = 1 /\ Weight(c) = "population" =>
            result[c] = Zero

\* var of identical values is 0 whenever mean returned that value.
VarIdenticalValuesGiveZeroWhenMeanExact ==
    \A c \in Callers :
        /\ IsVar(c) /\ WellSized(c) /\ Constant(x[c])
        /\ mean(x[c]) = x[c][1]
        => result[c] = Zero

\* var of identical values is 0 (it is not: mean([7,7,7]) rounds to 6.5).
VarIdenticalValuesGiveZero ==
    \A c \in Callers :
        IsVar(c) /\ WellSized(c) /\ Constant(x[c]) =>
            IsFinite(result[c]) /\ result[c].mag = 0

====
